---------------------------- MODULE Spec2Model ----------------------------
(***************************************************************************)
(* Model of the morphosyntactic rule engine (constraints/agreement.py),    *)
(* the backtracking candidate generator (morphological/templates.py) and   *)
(* the constraint-filtered beam search (constraints/decoder.py).           *)
(*                                                                         *)
(* Python's None is the value None; a feature absent from a token's        *)
(* "features" dict is None.  Lists are sequences (Python index i is TLA+   *)
(* index i+1; the "head" field keeps Python's 0-based value).              *)
(***************************************************************************)
EXTENDS Integers, Sequences, FiniteSets, TLC

VARIABLES
    \* AgreementChecker
    tokens,       \* the token list handed to an AgreementChecker method
    cfg,          \* the AgreementChecker instance (its eight settings)
    op,           \* the method applied to tokens, "" before the call
    verdict,      \* the boolean the method returned, None before the call
    \* shared by the generator and the decoder
    nlp,          \* MorphologicalAnalyzer.tool
    constraints,  \* the constraint names in force
    \* ConstrainedDecoder.beam_search_with_constraints
    vocabulary,       \* the words, in order
    initial_scores,   \* one score per word
    beam_width,
    max_length,
    beams,            \* list of (sequence, score)
    candidates,       \* the surviving extensions of the current step
    step,             \* iterations of "for step in range(max_length)" done
    dpc,              \* where beam_search_with_constraints stands
    \* MorphosyntacticTemplate.generate_with_constraints
    template_name,
    lexical_items,        \* part of speech -> list of surface forms
    chunk_size,
    stack,                \* the activations of backtrack, innermost last
    current_words,
    current_tokens,
    current_pos_sequence,
    candidate_sequences,  \* the list backtrack appends to
    start,                \* the chunk loop's index
    generated,            \* the phrases kept so far
    gpc,                  \* where generate_with_constraints stands
    \* a direct call of one of the constraint dispatchers
    checked_sequence      \* the words whose analysis is checked

ruleVars == <<tokens, cfg, op, verdict>>
sharedVars == <<nlp, constraints>>
decVars == <<vocabulary, initial_scores, beam_width, max_length, beams,
             candidates, step, dpc>>

genVars == <<template_name, lexical_items, chunk_size, stack, current_words,
             current_tokens, current_pos_sequence, candidate_sequences, start,
             generated, gpc>>
conVars == <<checked_sequence>>

nonRuleVars == <<sharedVars, decVars, genVars, conVars>>

vars == <<ruleVars, sharedVars, decVars, genVars, conVars>>

None == "None"

\* Python truthiness of a feature value / string read with dict.get
Truthy(x) == x # None /\ x # ""

RECURSIVE Rep(_, _)
Rep(x, n) == IF n = 0 THEN <<>> ELSE <<x>> \o Rep(x, n - 1)

-----------------------------------------------------------------------------
(* Tokens: the schema of AgreementChecker's docstring.                     *)

Tok(text, lemma, pos, dep, head, gender, number, person) ==
    [text |-> text, lemma |-> lemma, pos |-> pos, dep |-> dep, head |-> head,
     features |-> [gender |-> gender, number |-> number, person |-> person]]

\* a token of which only the part of speech is known
TagTok(pos) == Tok("w", None, pos, None, None, None, None, None)

_POS_GENDER == {"DET", "ADJ", "NOUN"}
_POS_NUMBER == {"DET", "ADJ", "NOUN", "VERB"}
_DEP_SUBJ == {"nsubj", "nsubj:pass"}

\* AgreementChecker(): the defaults of __init__
DefaultChecker ==
    [pre_adj_max |-> 1, post_adj_max |-> 2, max_total_adjs |-> 3,
     max_consecutive_same_adj |-> 1, max_same_adj_per_sentence |-> 1,
     require_det |-> TRUE, require_noun |-> TRUE, default_subj_person |-> "3"]

-----------------------------------------------------------------------------
(* check_syntax_template                                                   *)

\* the two "while i < len(pos) and pos[i] == "ADJ" and n < max" loops:
\* the index reached (1-based) from index i with n adjectives consumed
\* AdjLoop with the cap tested by <= : one adjective too many is consumed
RECURSIVE AdjLoop_OffByOne(_, _, _, _)
AdjLoop_OffByOne(pos, i, n, max) ==
    IF i <= Len(pos) /\ pos[i] = "ADJ" /\ n <= max
    THEN AdjLoop_OffByOne(pos, i + 1, n + 1, max)
    ELSE <<i, n>>

RECURSIVE AdjLoop(_, _, _, _)
AdjLoop(pos, i, n, max) ==
    IF i <= Len(pos) /\ pos[i] = "ADJ" /\ n < max
    THEN AdjLoop(pos, i + 1, n + 1, max)
    ELSE <<i, n>>

\* pos = [t.get("pos") for t in tokens]
PosOf(toks) == [k \in 1..Len(toks) |-> toks[k].pos]

check_syntax_template(self, toks) ==
    IF toks = <<>> THEN FALSE
    ELSE
    LET pos == PosOf(toks)
        n == Len(pos)
        detMissing == self.require_det /\ (1 > n \/ pos[1] # "DET")
        i1 == IF self.require_det THEN 2
              ELSE IF 1 <= n /\ pos[1] = "DET" THEN 2 ELSE 1
        preRun == AdjLoop(pos, i1, 0, self.pre_adj_max)
        i2 == preRun[1]
        pre == preRun[2]
        tooManyPre == i2 <= n /\ pos[i2] = "ADJ" /\ pre >= self.pre_adj_max
        nounMissing == self.require_noun /\ (i2 > n \/ pos[i2] # "NOUN")
        i3 == IF self.require_noun THEN i2 + 1
              ELSE IF i2 <= n /\ pos[i2] = "NOUN" THEN i2 + 1 ELSE i2
        i4 == AdjLoop(pos, i3, 0, self.post_adj_max)[1]
    IN  IF detMissing THEN FALSE
        ELSE IF tooManyPre THEN FALSE
        ELSE IF nounMissing THEN FALSE
        ELSE IF i4 <= n THEN FALSE
        ELSE TRUE

-----------------------------------------------------------------------------
(* check_gender_agreement                                                  *)

\* the "for t in tokens" loop from index k with canonical gender g
\* GenderLoop without the test of the part of speech
RECURSIVE GenderLoop_AnyPos(_, _, _)
GenderLoop_AnyPos(toks, k, g) ==
    IF k > Len(toks) THEN TRUE
    ELSE LET tg == toks[k].features.gender
         IN  IF Truthy(tg)
             THEN IF g = None THEN GenderLoop_AnyPos(toks, k + 1, tg)
                  ELSE IF g # tg THEN FALSE
                  ELSE GenderLoop_AnyPos(toks, k + 1, g)
             ELSE GenderLoop_AnyPos(toks, k + 1, g)

RECURSIVE GenderLoop(_, _, _)
GenderLoop(toks, k, g) ==
    IF k > Len(toks) THEN TRUE
    ELSE LET t == toks[k]
             tg == t.features.gender
         IN  IF t.pos \in _POS_GENDER /\ Truthy(tg)
             THEN IF g = None THEN GenderLoop(toks, k + 1, tg)
                  ELSE IF g # tg THEN FALSE
                  ELSE GenderLoop(toks, k + 1, g)
             ELSE GenderLoop(toks, k + 1, g)

check_gender_agreement(self, toks) == GenderLoop(toks, 1, None)

-----------------------------------------------------------------------------
(* _subjects_by_head, check_number_agreement, check_subject_verb_agreement *)

\* "head" is an int or None; None is modelled by NoHead, an int that is the
\* index of no token, so that a token without head is the subject of no verb
NoHead == 0 - 1

\* SubjectsFrom keeping the last subject only (m[head] = [i] for
\* m.setdefault(head, []).append(i))
RECURSIVE SubjectsFrom_Overwrite(_, _, _)
SubjectsFrom_Overwrite(toks, h, k) ==
    IF k > Len(toks) THEN <<>>
    ELSE LET rest == SubjectsFrom_Overwrite(toks, h, k + 1)
         IN  IF rest # <<>> THEN rest
             ELSE IF toks[k].dep \in _DEP_SUBJ /\ toks[k].head = h
                  THEN <<k>> ELSE <<>>

\* the indices (1-based, ascending) of the tokens from k on whose dep is a
\* subject relation and whose head is h
RECURSIVE SubjectsFrom(_, _, _)
SubjectsFrom(toks, h, k) ==
    IF k > Len(toks) THEN <<>>
    ELSE IF toks[k].dep \in _DEP_SUBJ /\ toks[k].head = h
         THEN <<k>> \o SubjectsFrom(toks, h, k + 1)
         ELSE SubjectsFrom(toks, h, k + 1)

\* m = _subjects_by_head(tokens) read as m.get(i, []) for the 0-based index i
_subjects_by_head(toks, i) == SubjectsFrom(toks, i, 1)

\* "for si in subj_map.get(i, [])" of check_number_agreement: TRUE when a
\* subject from position j of the list carries a number other than n
RECURSIVE NumberSubjectClash(_, _, _, _)
NumberSubjectClash(toks, subjects, j, n) ==
    IF j > Len(subjects) THEN FALSE
    ELSE LET sn == toks[subjects[j]].features.number
         IN  IF Truthy(sn) /\ sn # n THEN TRUE
             ELSE NumberSubjectClash(toks, subjects, j + 1, n)

\* NumberLoop comparing a verb's number with base as well
RECURSIVE NumberLoop_VerbAgainstBase(_, _, _)
NumberLoop_VerbAgainstBase(toks, k, base) ==
    IF k > Len(toks) THEN TRUE
    ELSE LET t == toks[k]
             n == t.features.number
         IN  IF t.pos \notin _POS_NUMBER THEN NumberLoop_VerbAgainstBase(toks, k + 1, base)
             ELSE IF ~Truthy(n) THEN NumberLoop_VerbAgainstBase(toks, k + 1, base)
             ELSE IF t.pos = "VERB" /\ NumberSubjectClash(toks, _subjects_by_head(toks, k - 1), 1, n)
                  THEN FALSE
             ELSE IF base = None THEN NumberLoop_VerbAgainstBase(toks, k + 1, n)
             ELSE IF base # n THEN FALSE
             ELSE NumberLoop_VerbAgainstBase(toks, k + 1, base)

RECURSIVE NumberLoop(_, _, _)
NumberLoop(toks, k, base) ==
    IF k > Len(toks) THEN TRUE
    ELSE LET t == toks[k]
             n == t.features.number
         IN  IF t.pos \notin _POS_NUMBER THEN NumberLoop(toks, k + 1, base)
             ELSE IF ~Truthy(n) THEN NumberLoop(toks, k + 1, base)
             ELSE IF t.pos = "VERB"
                  THEN IF NumberSubjectClash(toks, _subjects_by_head(toks, k - 1), 1, n)
                       THEN FALSE
                       ELSE NumberLoop(toks, k + 1, base)
             ELSE IF base = None THEN NumberLoop(toks, k + 1, n)
             ELSE IF base # n THEN FALSE
             ELSE NumberLoop(toks, k + 1, base)

check_number_agreement(self, toks) == NumberLoop(toks, 1, None)

\* "for si in subj_map.get(vi, [])" of check_subject_verb_agreement
\* SubjVerbClash reading the subject's person without the default
RECURSIVE SubjVerbClash_NoDefault(_, _, _, _, _)
SubjVerbClash_NoDefault(self, toks, subjects, j, vf) ==
    IF j > Len(subjects) THEN FALSE
    ELSE LET sf == toks[subjects[j]].features
         IN  IF Truthy(sf.number) /\ Truthy(vf.number) /\ sf.number # vf.number
             THEN TRUE
             ELSE IF Truthy(vf.person) /\ sf.person # vf.person THEN TRUE
             ELSE SubjVerbClash_NoDefault(self, toks, subjects, j + 1, vf)

RECURSIVE SubjVerbClash(_, _, _, _, _)
SubjVerbClash(self, toks, subjects, j, vf) ==
    IF j > Len(subjects) THEN FALSE
    ELSE LET sf == toks[subjects[j]].features
             sp == IF sf.person = None THEN self.default_subj_person ELSE sf.person
         IN  IF Truthy(sf.number) /\ Truthy(vf.number) /\ sf.number # vf.number
             THEN TRUE
             ELSE IF Truthy(vf.person) /\ sp # vf.person THEN TRUE
             ELSE SubjVerbClash(self, toks, subjects, j + 1, vf)

RECURSIVE SubjVerbLoop(_, _, _)
SubjVerbLoop(self, toks, k) ==
    IF k > Len(toks) THEN TRUE
    ELSE IF toks[k].pos # "VERB" THEN SubjVerbLoop(self, toks, k + 1)
    ELSE IF SubjVerbClash(self, toks, _subjects_by_head(toks, k - 1), 1,
                          toks[k].features)
         THEN FALSE
         ELSE SubjVerbLoop(self, toks, k + 1)

check_subject_verb_agreement(self, toks) == SubjVerbLoop(self, toks, 1)

-----------------------------------------------------------------------------
(* check_anti_repetition                                                   *)

\* str.strip() and str.lower() on the strings of the model
Strip(s) ==
    CASE s = "grand " -> "grand"
      [] s = " petit" -> "petit"
      [] OTHER -> s

Lower(s) ==
    CASE s = "Petit" -> "petit"
      [] s = "Grand" -> "grand"
      [] s = "Le" -> "le"
      [] s = "La" -> "la"
      [] s = "Les" -> "les"
      [] OTHER -> s

\* lemma = (t.get("lemma") or t.get("text") or "").strip().lower()
NormLemma(t) ==
    Lower(Strip(IF Truthy(t.lemma) THEN t.lemma
                ELSE IF Truthy(t.text) THEN t.text ELSE ""))

\* the empty dict
EmptyDict == [x \in {} |-> 0]

\* d.get(key, 0)
DictGet(d, key) == IF key \in DOMAIN d THEN d[key] ELSE 0

\* d[key] = value
DictSet(d, key, value) ==
    [x \in DOMAIN d \cup {key} |-> IF x = key THEN value ELSE d[x]]

\* total_adjs = sum(1 for t in tokens if t.get("pos") == "ADJ")
RECURSIVE CountAdj(_, _)
CountAdj(toks, k) ==
    IF k > Len(toks) THEN 0
    ELSE (IF toks[k].pos = "ADJ" THEN 1 ELSE 0) + CountAdj(toks, k + 1)

\* AntiRepLoop in which a token that is no adjective does not end the run
RECURSIVE AntiRepLoop_NoReset(_, _, _, _, _, _)
AntiRepLoop_NoReset(self, toks, k, run_lemma, run_len, lemma_counts) ==
    IF k > Len(toks) THEN TRUE
    ELSE IF toks[k].pos # "ADJ"
         THEN AntiRepLoop_NoReset(self, toks, k + 1, run_lemma, run_len, lemma_counts)
    ELSE LET lemma == NormLemma(toks[k])
             same == lemma # "" /\ lemma = run_lemma
             len2 == IF same THEN run_len + 1 ELSE 1
             count2 == DictGet(lemma_counts, lemma) + 1
         IN  IF len2 > self.max_consecutive_same_adj THEN FALSE
             ELSE IF lemma # "" /\ count2 > self.max_same_adj_per_sentence THEN FALSE
             ELSE AntiRepLoop_NoReset(self, toks, k + 1, lemma, len2,
                              IF lemma # "" THEN DictSet(lemma_counts, lemma, count2)
                              ELSE lemma_counts)

\* the "for t in tokens" loop from index k
RECURSIVE AntiRepLoop(_, _, _, _, _, _)
AntiRepLoop(self, toks, k, run_lemma, run_len, lemma_counts) ==
    IF k > Len(toks) THEN TRUE
    ELSE IF toks[k].pos # "ADJ"
         THEN AntiRepLoop(self, toks, k + 1, None, 0, lemma_counts)
    ELSE LET lemma == NormLemma(toks[k])
             same == lemma # "" /\ lemma = run_lemma
             len2 == IF same THEN run_len + 1 ELSE 1
             count2 == DictGet(lemma_counts, lemma) + 1
         IN  IF len2 > self.max_consecutive_same_adj THEN FALSE
             ELSE IF lemma # "" /\ count2 > self.max_same_adj_per_sentence THEN FALSE
             ELSE AntiRepLoop(self, toks, k + 1, lemma, len2,
                              IF lemma # "" THEN DictSet(lemma_counts, lemma, count2)
                              ELSE lemma_counts)

check_anti_repetition(self, toks) ==
    IF CountAdj(toks, 1) > self.max_total_adjs THEN FALSE
    ELSE AntiRepLoop(self, toks, 1, None, 0, EmptyDict)

-----------------------------------------------------------------------------
(* MorphologicalAnalyzer.  The pipeline behind self.nlp is outside the     *)
(* repository: it is modelled as a deterministic tagger over the word      *)
(* forms of the model, with one reading that depends on the context (a     *)
(* determiner form right after a determiner is read as a noun, as in       *)
(* "le la"), and, for spaCy, a parser that attaches the nouns before the   *)
(* first verb to it as subjects.  A text is the sequence of its            *)
(* blank-separated forms.                                                  *)

Tools == {"spacy", "stanza"}

\* what the tagger says of a form on its own
Lexicon(form) ==
    CASE form = "Le"      -> [pos |-> "DET",  lemma |-> "le",     gender |-> "masc", number |-> "sing", person |-> None]
      [] form = "La"      -> [pos |-> "DET",  lemma |-> "le",     gender |-> "fem",  number |-> "sing", person |-> None]
      [] form = "Les"     -> [pos |-> "DET",  lemma |-> "le",     gender |-> None,   number |-> "plur", person |-> None]
      [] form = "petit"   -> [pos |-> "ADJ",  lemma |-> "petit",  gender |-> "masc", number |-> "sing", person |-> None]
      [] form = "petite"  -> [pos |-> "ADJ",  lemma |-> "petit",  gender |-> "fem",  number |-> "sing", person |-> None]
      [] form = "grand"   -> [pos |-> "ADJ",  lemma |-> "grand",  gender |-> "masc", number |-> "sing", person |-> None]
      [] form = "chat"    -> [pos |-> "NOUN", lemma |-> "chat",   gender |-> "masc", number |-> "sing", person |-> None]
      [] form = "chatte"  -> [pos |-> "NOUN", lemma |-> "chat",   gender |-> "fem",  number |-> "sing", person |-> None]
      [] form = "chats"   -> [pos |-> "NOUN", lemma |-> "chat",   gender |-> "masc", number |-> "plur", person |-> None]
      [] form = "mange"   -> [pos |-> "VERB", lemma |-> "manger", gender |-> None,   number |-> "sing", person |-> "3"]
      [] form = "mangent" -> [pos |-> "VERB", lemma |-> "manger", gender |-> None,   number |-> "plur", person |-> "3"]
      [] OTHER            -> [pos |-> "X",    lemma |-> form,     gender |-> None,   number |-> None,   person |-> None]

\* the tagger's reading of the k-th form of a text
Tagger(forms, k) ==
    IF k > 1 /\ Lexicon(forms[k]).pos = "DET" /\ Lexicon(forms[k - 1]).pos = "DET"
    THEN [pos |-> "NOUN", lemma |-> Lower(forms[k]), gender |-> "masc",
          number |-> "sing", person |-> None]
    ELSE Lexicon(forms[k])

\* the parser's root: the first verb, or the first token
RootOf(forms) ==
    LET verbs == {k \in 1..Len(forms) : Tagger(forms, k).pos = "VERB"}
    IN  IF verbs = {} THEN 1 ELSE CHOOSE k \in verbs : \A j \in verbs : k <= j

\* _format_spacy_doc: lemma, dep and head (token.head.i, 0-based) are set
FormatSpacy(forms) ==
    LET r == RootOf(forms)
    IN  [k \in 1..Len(forms) |->
            LET a == Tagger(forms, k)
                dep == IF k = r THEN "ROOT"
                       ELSE IF a.pos = "NOUN" /\ k < r THEN "nsubj" ELSE "dep"
            IN  Tok(forms[k], a.lemma, a.pos, dep, r - 1,
                    a.gender, a.number, a.person)]

\* _format_stanza_doc under processors='tokenize,mwt,pos': no lemma, no
\* deprel, no head
FormatStanza(forms) ==
    [k \in 1..Len(forms) |->
        LET a == Tagger(forms, k)
        IN  Tok(forms[k], None, a.pos, None, NoHead, a.gender, a.number, a.person)]

\* the blank-separated forms of a string
Split(text) ==
    CASE text = ""          -> <<>>
      [] text = "La chat"   -> <<"La", "chat">>
      [] text = "Le chatte" -> <<"Le", "chatte">>
      [] OTHER              -> <<text>>

\* ' '.join(sequence), as the sequence of its forms
RECURSIVE Join(_)
Join(sequence) ==
    IF sequence = <<>> THEN <<>>
    ELSE Split(Head(sequence)) \o Join(Tail(sequence))

\* MorphologicalAnalyzer.analyze on the text of the given forms
analyze(tool, forms) ==
    IF tool = "spacy" THEN FormatSpacy(forms)
    ELSE IF tool = "stanza" THEN FormatStanza(forms)
    ELSE <<>>

-----------------------------------------------------------------------------
(* MorphosyntacticTemplate: the template registry and the two constraint   *)
(* dispatchers (self.agreement_checker is AgreementChecker()).             *)

\* _load_templates: name -> pattern (already split on blanks), constraints
templates ==
    [SN  |-> [pattern |-> <<"DET?", "ADJ*", "NOUN", "ADJ*">>,
              constraints |-> <<"gender_agreement", "number_agreement">>],
     SV  |-> [pattern |-> <<"NOUN", "VERB">>,
              constraints |-> <<"subject_verb_agreement">>],
     SVO |-> [pattern |-> <<"NOUN", "VERB", "DET?", "NOUN">>,
              constraints |-> <<"subject_verb_agreement", "object_agreement">>]]

TemplateNames == {"SN", "SV", "SVO"}

\* the "for constraint in constraints" loop of _should_prune from index k
RECURSIVE ShouldPruneLoop(_, _, _)
ShouldPruneLoop(toks, constraint_names, k) ==
    IF k > Len(constraint_names) THEN FALSE
    ELSE LET constraint == constraint_names[k]
         IN  IF constraint \notin {"gender_agreement", "number_agreement"}
             THEN ShouldPruneLoop(toks, constraint_names, k + 1)
             ELSE IF constraint = "gender_agreement"
                  THEN IF ~check_gender_agreement(DefaultChecker, toks) THEN TRUE
                       ELSE ShouldPruneLoop(toks, constraint_names, k + 1)
             ELSE IF constraint = "number_agreement"
                  THEN IF ~check_number_agreement(DefaultChecker, toks) THEN TRUE
                       ELSE ShouldPruneLoop(toks, constraint_names, k + 1)
             ELSE ShouldPruneLoop(toks, constraint_names, k + 1)

_should_prune(toks, constraint_names) == ShouldPruneLoop(toks, constraint_names, 1)

\* TemplateConstraintLoop failing on a name it does not know
RECURSIVE TemplateConstraintLoop_UnknownFails(_, _, _)
TemplateConstraintLoop_UnknownFails(toks, constraint_names, k) ==
    IF k > Len(constraint_names) THEN TRUE
    ELSE LET constraint == constraint_names[k]
         IN  IF constraint = "gender_agreement"
             THEN IF ~check_gender_agreement(DefaultChecker, toks) THEN FALSE
                  ELSE TemplateConstraintLoop_UnknownFails(toks, constraint_names, k + 1)
             ELSE IF constraint = "number_agreement"
             THEN IF ~check_number_agreement(DefaultChecker, toks) THEN FALSE
                  ELSE TemplateConstraintLoop_UnknownFails(toks, constraint_names, k + 1)
             ELSE IF constraint = "subject_verb_agreement"
             THEN IF ~check_subject_verb_agreement(DefaultChecker, toks) THEN FALSE
                  ELSE TemplateConstraintLoop_UnknownFails(toks, constraint_names, k + 1)
             ELSE FALSE

\* the "for constraint in constraints" loop of
\* MorphosyntacticTemplate._check_constraints from index k
RECURSIVE TemplateConstraintLoop(_, _, _)
TemplateConstraintLoop(toks, constraint_names, k) ==
    IF k > Len(constraint_names) THEN TRUE
    ELSE LET constraint == constraint_names[k]
         IN  IF constraint = "gender_agreement"
             THEN IF ~check_gender_agreement(DefaultChecker, toks) THEN FALSE
                  ELSE TemplateConstraintLoop(toks, constraint_names, k + 1)
             ELSE IF constraint = "number_agreement"
             THEN IF ~check_number_agreement(DefaultChecker, toks) THEN FALSE
                  ELSE TemplateConstraintLoop(toks, constraint_names, k + 1)
             ELSE IF constraint = "subject_verb_agreement"
             THEN IF ~check_subject_verb_agreement(DefaultChecker, toks) THEN FALSE
                  ELSE TemplateConstraintLoop(toks, constraint_names, k + 1)
             ELSE TemplateConstraintLoop(toks, constraint_names, k + 1)

\* MorphosyntacticTemplate._check_constraints
Template_check_constraints(toks, constraint_names) ==
    IF ~TemplateConstraintLoop(toks, constraint_names, 1) THEN FALSE
    ELSE IF ~check_anti_repetition(DefaultChecker, toks) THEN FALSE
    ELSE TRUE

-----------------------------------------------------------------------------
(* ConstrainedDecoder                                                      *)

\* the "for constraint in constraint_names" loop of
\* ConstrainedDecoder._check_constraints from index k
RECURSIVE DecoderConstraintLoop(_, _, _)
DecoderConstraintLoop(toks, constraint_names, k) ==
    IF k > Len(constraint_names) THEN TRUE
    ELSE LET constraint == constraint_names[k]
         IN  IF constraint = "gender_agreement"
             THEN IF ~check_gender_agreement(DefaultChecker, toks) THEN FALSE
                  ELSE DecoderConstraintLoop(toks, constraint_names, k + 1)
             ELSE IF constraint = "number_agreement"
             THEN IF ~check_number_agreement(DefaultChecker, toks) THEN FALSE
                  ELSE DecoderConstraintLoop(toks, constraint_names, k + 1)
             ELSE IF constraint = "subject_verb_agreement"
             THEN IF ~check_subject_verb_agreement(DefaultChecker, toks) THEN FALSE
                  ELSE DecoderConstraintLoop(toks, constraint_names, k + 1)
             ELSE DecoderConstraintLoop(toks, constraint_names, k + 1)

\* ConstrainedDecoder._check_constraints
Decoder_check_constraints(tool, sequence, constraint_names) ==
    DecoderConstraintLoop(analyze(tool, Join(sequence)), constraint_names, 1)

\* constraints = constraints or ['gender_agreement', 'number_agreement']
\* (None and [] are both falsy; <<>> stands for both)
ConstraintsOrDefault(given) ==
    IF given = <<>> THEN <<"gender_agreement", "number_agreement">> ELSE given

\* the two nested loops of a step, from beam entry b and vocabulary index
\* idx (1-based): the extensions that pass the constraints, in the order in
\* which they are appended to candidates
RECURSIVE Extensions(_, _, _, _, _, _, _)
Extensions(tool, constraint_names, vocab, scores, beam, b, idx) ==
    IF b > Len(beam) THEN <<>>
    ELSE IF idx > Len(vocab)
         THEN Extensions(tool, constraint_names, vocab, scores, beam, b + 1, 1)
    ELSE LET new_sequence == Append(beam[b].sequence, vocab[idx])
             new_score == beam[b].score + scores[idx]
             rest == Extensions(tool, constraint_names, vocab, scores, beam, b, idx + 1)
         IN  IF Decoder_check_constraints(tool, new_sequence, constraint_names)
             THEN <<[sequence |-> new_sequence, score |-> new_score]>> \o rest
             ELSE rest

\* InsertByScore putting x before the entries of equal score (an ascending
\* sort followed by a reversal)
RECURSIVE InsertByScore_TiesReversed(_, _)
InsertByScore_TiesReversed(sorted, x) ==
    IF sorted = <<>> THEN <<x>>
    ELSE IF Head(sorted).score > x.score
         THEN <<Head(sorted)>> \o InsertByScore_TiesReversed(Tail(sorted), x)
         ELSE <<x>> \o sorted

\* list.sort(key=score, reverse=True) keeps the order of entries with equal
\* keys: x goes behind every entry whose score is at least its own
RECURSIVE InsertByScore(_, _)
InsertByScore(sorted, x) ==
    IF sorted = <<>> THEN <<x>>
    ELSE IF Head(sorted).score >= x.score
         THEN <<Head(sorted)>> \o InsertByScore(Tail(sorted), x)
         ELSE <<x>> \o sorted

RECURSIVE SortByScore(_, _)
SortByScore(list, k) ==
    IF k = 0 THEN <<>>
    ELSE InsertByScore(SortByScore(list, k - 1), list[k])

\* candidates.sort(key=lambda x: x[1], reverse=True)
SortedCandidates(list) == SortByScore(list, Len(list))

\* list[:n] for n >= 0
Take(list, n) == SubSeq(list, 1, IF n < Len(list) THEN n ELSE Len(list))

-----------------------------------------------------------------------------
(* The parts of the program a specification leaves alone.                  *)

\* no AgreementChecker method is being exercised on its own
RuleIdle ==
    /\ tokens = <<>>
    /\ cfg = DefaultChecker
    /\ op = ""
    /\ verdict = None

\* no analyzer and no constraint list are in use
SharedIdle ==
    /\ nlp = None
    /\ constraints = <<>>

\* no beam search is running
DecoderIdle ==
    /\ vocabulary = <<>>
    /\ initial_scores = <<>>
    /\ beam_width = 0
    /\ max_length = 0
    /\ beams = <<>>
    /\ candidates = <<>>
    /\ step = 0
    /\ dpc = "idle"

\* generate_with_constraints has not been called
GeneratorIdle ==
    /\ template_name = None
    /\ lexical_items = <<>>
    /\ chunk_size = 0
    /\ stack = <<>>
    /\ current_words = <<>>
    /\ current_tokens = <<>>
    /\ current_pos_sequence = <<>>
    /\ candidate_sequences = <<>>
    /\ start = 0
    /\ generated = <<>>
    /\ gpc = "idle"

\* no dispatcher is called on its own
DispatchIdle ==
    /\ checked_sequence = <<>>

-----------------------------------------------------------------------------
(* Specification SpecTemplate: check_syntax_template applied to every tag  *)
(* sequence of at most MaxTags tags under every checker configuration      *)
(* with pre_adj_max, post_adj_max in 0..MaxAdjCfg.                         *)

MaxTags == 4
MaxAdjCfg == 2

Tags == {"DET", "ADJ", "NOUN", "VERB"}

TemplateCheckers ==
    {[DefaultChecker EXCEPT !.pre_adj_max = a, !.post_adj_max = b,
                            !.require_det = d, !.require_noun = r] :
        a \in 0..MaxAdjCfg, b \in 0..MaxAdjCfg, d \in BOOLEAN, r \in BOOLEAN}

TemplateInit ==
    /\ SharedIdle /\ DecoderIdle /\ GeneratorIdle /\ DispatchIdle
    /\ tokens = <<>>
    /\ cfg \in TemplateCheckers
    /\ op = ""
    /\ verdict = None

\* the caller appends one more analysed token to the list
TemplatePush ==
    /\ op = ""
    /\ Len(tokens) < MaxTags
    /\ \E t \in Tags : tokens' = Append(tokens, TagTok(t))
    /\ UNCHANGED <<cfg, op, verdict, nonRuleVars>>

CallSyntaxTemplate ==
    /\ op = ""
    /\ op' = "check_syntax_template"
    /\ verdict' = check_syntax_template(cfg, tokens)
    /\ UNCHANGED <<tokens, cfg, nonRuleVars>>

TemplateNext == TemplatePush \/ CallSyntaxTemplate

SpecTemplate == TemplateInit /\ [][TemplateNext]_vars

\* DET^d ADJ^a NOUN^m ADJ^b
SlotForm(d, a, m, b) ==
    Rep("DET", d) \o Rep("ADJ", a) \o Rep("NOUN", m) \o Rep("ADJ", b)

(* C1: with require_noun set, check_syntax_template accepts exactly the    *)
(* non-empty tag sequences DET ADJ{0..pre_adj_max} NOUN ADJ{0..post_adj_max}*)
(* whose DET is mandatory under require_det and optional otherwise; with   *)
(* pre_adj_max = 1 and post_adj_max = 2, [DET, ADJ, ADJ, NOUN] fails,      *)
(* [DET, NOUN, ADJ, ADJ] passes, [NOUN] passes only without require_det,   *)
(* and the empty sequence always fails.                                    *)
C1_TemplateAccepts ==
    (op = "check_syntax_template") =>
        /\ cfg.require_noun =>
             (verdict <=>
                /\ tokens # <<>>
                /\ \E d \in (IF cfg.require_det THEN {1} ELSE {0, 1}),
                      a \in 0..cfg.pre_adj_max, b \in 0..cfg.post_adj_max :
                        PosOf(tokens) = SlotForm(d, a, 1, b))
        /\ (cfg.require_noun /\ cfg.pre_adj_max = 1 /\ cfg.post_adj_max = 2) =>
             /\ PosOf(tokens) = <<"DET", "ADJ", "ADJ", "NOUN">> => verdict = FALSE
             /\ PosOf(tokens) = <<"DET", "NOUN", "ADJ", "ADJ">> => verdict = TRUE
             /\ PosOf(tokens) = <<"NOUN">> => (verdict <=> ~cfg.require_det)
        /\ tokens = <<>> => verdict = FALSE

C1_Witness ==
    /\ op = "check_syntax_template"
    /\ cfg.require_noun /\ ~cfg.require_det
    /\ cfg.pre_adj_max = 1 /\ cfg.post_adj_max = 2
    /\ PosOf(tokens) = <<"NOUN", "ADJ", "ADJ">>
    /\ verdict = TRUE

-----------------------------------------------------------------------------
(* Specification SpecGender: check_gender_agreement applied to every list  *)
(* of at most MaxGenderToks tokens over four parts of speech, each with no *)
(* gender or one of two.                                                   *)

MaxGenderToks == 4

GenderTok(pos, gender) == Tok("w", None, pos, None, NoHead, gender, None, None)

GenderToks == {GenderTok(p, g) : p \in Tags, g \in {None, "masc", "fem"}}

GenderInit ==
    /\ SharedIdle /\ DecoderIdle /\ GeneratorIdle /\ DispatchIdle
    /\ tokens = <<>>
    /\ cfg = DefaultChecker
    /\ op = ""
    /\ verdict = None

GenderPush ==
    /\ op = ""
    /\ Len(tokens) < MaxGenderToks
    /\ \E t \in GenderToks : tokens' = Append(tokens, t)
    /\ UNCHANGED <<cfg, op, verdict, nonRuleVars>>

CallGenderAgreement ==
    /\ op = ""
    /\ op' = "check_gender_agreement"
    /\ verdict' = check_gender_agreement(cfg, tokens)
    /\ UNCHANGED <<tokens, cfg, nonRuleVars>>

GenderNext == GenderPush \/ CallGenderAgreement

SpecGender == GenderInit /\ [][GenderNext]_vars

\* token k is of an agreement-relevant part of speech and carries a gender
HasGender(toks, k) ==
    toks[k].pos \in {"DET", "ADJ", "NOUN"} /\ toks[k].features.gender # None

GenderOf(toks, k) == toks[k].features.gender

CarriesGender(t) == t.pos \in {"DET", "ADJ", "NOUN"} /\ t.features.gender # None

(* C2: check_gender_agreement returns false exactly when two tokens of pos *)
(* DET, ADJ or NOUN both carry a gender and the two values differ (the     *)
(* first such token fixes the canonical value, any later conflicting one   *)
(* fails); tokens of another pos or without gender never affect the        *)
(* result: deleting them leaves the result unchanged.                      *)
C2_GenderAgreement ==
    (op = "check_gender_agreement") =>
        LET idx == 1..Len(tokens)
            carriers == {k \in idx : HasGender(tokens, k)}
            first == CHOOSE k \in carriers : \A j \in carriers : k <= j
        IN  /\ verdict \in BOOLEAN
            /\ (verdict = FALSE) <=>
                  \E i \in carriers, j \in carriers :
                      GenderOf(tokens, i) # GenderOf(tokens, j)
            /\ (verdict = FALSE) <=>
                  /\ carriers # {}
                  /\ \E j \in carriers :
                        j > first /\ GenderOf(tokens, j) # GenderOf(tokens, first)
            /\ verdict = check_gender_agreement(cfg, SelectSeq(tokens, CarriesGender))
            /\ tokens = <<GenderTok("DET", "fem"), GenderTok("NOUN", "masc")>>
                  => verdict = FALSE
            /\ tokens = <<GenderTok("DET", "fem"), GenderTok("NOUN", "fem")>>
                  => verdict = TRUE

\* a VERB carrying another gender stands between an agreeing DET and NOUN,
\* and a later ADJ conflicts with the DET
C2_Witness ==
    /\ op = "check_gender_agreement"
    /\ tokens = <<GenderTok("DET", "fem"), GenderTok("VERB", "masc"),
                  GenderTok("NOUN", "fem"), GenderTok("ADJ", "masc")>>
    /\ verdict = FALSE

-----------------------------------------------------------------------------
(* Specification SpecSubjVerb: check_subject_verb_agreement applied to     *)
(* every list of at most MaxSvToks tokens, each a NOUN or a VERB with its  *)
(* number, person and dependency link, under two default_subj_person.      *)

MaxSvToks == 2

\* (dep, head) pairs: a subject of the token at index 0, a passive subject of
\* the token at index 1, an object of the token at index 0, and a subject
\* whose head lies beyond the end of the list
SvLinks == {<<"nsubj", 0>>, <<"nsubj:pass", 1>>, <<"obj", 0>>,
            <<"nsubj", MaxSvToks>>}

SvTok(pos, link, number, person) ==
    Tok("w", None, pos, link[1], link[2], None, number, person)

SvToks ==
    {SvTok(p, l, n, q) : p \in {"NOUN", "VERB"}, l \in SvLinks,
                         n \in {None, "sing", "plur"}, q \in {None, "1", "3"}}

SvInit ==
    /\ SharedIdle /\ DecoderIdle /\ GeneratorIdle /\ DispatchIdle
    /\ tokens = <<>>
    /\ cfg \in {[DefaultChecker EXCEPT !.default_subj_person = q] : q \in {"3", "1"}}
    /\ op = ""
    /\ verdict = None

SvPush ==
    /\ op = ""
    /\ Len(tokens) < MaxSvToks
    /\ \E t \in SvToks : tokens' = Append(tokens, t)
    /\ UNCHANGED <<cfg, op, verdict, nonRuleVars>>

CallSubjectVerbAgreement ==
    /\ op = ""
    /\ op' = "check_subject_verb_agreement"
    /\ verdict' = check_subject_verb_agreement(cfg, tokens)
    /\ UNCHANGED <<tokens, cfg, nonRuleVars>>

SvNext == SvPush \/ CallSubjectVerbAgreement

SpecSubjVerb == SvInit /\ [][SvNext]_vars

\* token s (1-based) is a mapped subject of the verb at v (1-based)
IsSubjectOf(toks, s, v) ==
    /\ toks[v].pos = "VERB"
    /\ toks[s].dep \in {"nsubj", "nsubj:pass"}
    /\ toks[s].head = v - 1

(* C3: check_subject_verb_agreement returns false exactly when some VERB   *)
(* at position v has a subject s (dep nsubj or nsubj:pass, head = v) such  *)
(* that both declare a number and the numbers differ, or the verb declares *)
(* a person that differs from the subject's, the subject's person being    *)
(* default_subj_person when it declares none; a subject whose head is no   *)
(* VERB position, or out of range, changes nothing and raises nothing.     *)
C3_SubjectVerbAgreement ==
    (op = "check_subject_verb_agreement") =>
        LET idx == 1..Len(tokens)
            PersonOf(s) == IF tokens[s].features.person = None
                           THEN cfg.default_subj_person
                           ELSE tokens[s].features.person
            Clash(s, v) ==
                \/ /\ tokens[s].features.number # None
                   /\ tokens[v].features.number # None
                   /\ tokens[s].features.number # tokens[v].features.number
                \/ /\ tokens[v].features.person # None
                   /\ tokens[v].features.person # PersonOf(s)
            Mapped(t) == \E v \in idx : tokens[v].pos = "VERB" /\ t.head = v - 1
            Unlink(t) == IF t.dep \in {"nsubj", "nsubj:pass"} /\ ~Mapped(t)
                         THEN [t EXCEPT !.dep = "dep"] ELSE t
        IN  /\ verdict \in BOOLEAN
            /\ (verdict = FALSE) <=>
                  \E v \in idx, s \in idx : IsSubjectOf(tokens, s, v) /\ Clash(s, v)
            /\ verdict = check_subject_verb_agreement(cfg,
                            [k \in idx |-> Unlink(tokens[k])])

\* a subject without person under default_subj_person "1" and a verb in the
\* third person: the numbers agree and the persons clash
C3_Witness ==
    /\ op = "check_subject_verb_agreement"
    /\ cfg.default_subj_person = "1"
    /\ tokens = <<SvTok("NOUN", <<"nsubj:pass", 1>>, "sing", None),
                  SvTok("VERB", <<"obj", 0>>, "sing", "3")>>
    /\ verdict = FALSE

-----------------------------------------------------------------------------
(* Specification SpecAntiRep: check_anti_repetition applied to every list  *)
(* of at most MaxAntiToks tokens (adjectives under several lemma and text  *)
(* spellings, and a noun) under every checker whose max_total_adjs is in   *)
(* 1..MaxTotalCfg and whose two repetition caps are in 0..MaxRepCfg.       *)

MaxAntiToks == 4
MaxTotalCfg == 3
MaxRepCfg == 2

AntiTok(pos, lemma, text) == Tok(text, lemma, pos, None, NoHead, None, None, None)

AntiToks ==
    {AntiTok("ADJ", "petit", "petit"), AntiTok("ADJ", None, "Petit"),
     AntiTok("ADJ", None, "petite"), AntiTok("ADJ", "grand ", "grand"),
     AntiTok("ADJ", "grand", "grands"), AntiTok("NOUN", "petit", "petit")}

AntiCheckers ==
    {[DefaultChecker EXCEPT !.max_total_adjs = t, !.max_consecutive_same_adj = c,
                            !.max_same_adj_per_sentence = n] :
        t \in 1..MaxTotalCfg, c \in 0..MaxRepCfg, n \in 0..MaxRepCfg}

AntiInit ==
    /\ SharedIdle /\ DecoderIdle /\ GeneratorIdle /\ DispatchIdle
    /\ tokens = <<>>
    /\ cfg \in AntiCheckers
    /\ op = ""
    /\ verdict = None

AntiPush ==
    /\ op = ""
    /\ Len(tokens) < MaxAntiToks
    /\ \E t \in AntiToks : tokens' = Append(tokens, t)
    /\ UNCHANGED <<cfg, op, verdict, nonRuleVars>>

CallAntiRepetition ==
    /\ op = ""
    /\ op' = "check_anti_repetition"
    /\ verdict' = check_anti_repetition(cfg, tokens)
    /\ UNCHANGED <<tokens, cfg, nonRuleVars>>

AntiNext == AntiPush \/ CallAntiRepetition

SpecAntiRep == AntiInit /\ [][AntiNext]_vars

-----------------------------------------------------------------------------
(* Specification SpecPrune: the generator's token buffer grown push by     *)
(* push, up to MaxPruneToks tokens, with no pruning: every buffer and      *)
(* every extension of it, so that what a cut would have discarded is there *)
(* to be looked at.                                                        *)

MaxPruneToks == 3

\* a word is a root of its own analysis or a subject of the token at index 0
PruneLinks == {<<"root", NoHead>>, <<"nsubj", 0>>}

PruneTok(pos, link, gender, number) ==
    Tok("w", None, pos, link[1], link[2], gender, number, None)

PruneToks ==
    {PruneTok(p, l, g, n) : p \in {"NOUN", "VERB"}, l \in PruneLinks,
                            g \in {None, "masc", "fem"}, n \in {None, "sing", "plur"}}

PruneInit ==
    /\ SharedIdle /\ DecoderIdle /\ GeneratorIdle /\ DispatchIdle
    /\ tokens = <<>>
    /\ cfg = DefaultChecker
    /\ op = ""
    /\ verdict = None

\* current_tokens.extend(word_tokens), one token at a time
PrunePush ==
    /\ Len(tokens) < MaxPruneToks
    /\ \E t \in PruneToks : tokens' = Append(tokens, t)
    /\ UNCHANGED <<cfg, op, verdict, nonRuleVars>>

PruneNext == PrunePush

SpecPrune == PruneInit /\ [][PruneNext]_vars

\* a failed incremental check stays failed after a push
StaysFailed ==
    /\ ~check_gender_agreement(cfg, tokens) => ~check_gender_agreement(cfg, tokens')
    /\ ~check_number_agreement(cfg, tokens) => ~check_number_agreement(cfg, tokens')
    /\ \A name \in TemplateNames :
          _should_prune(tokens, templates[name].constraints)
              => _should_prune(tokens', templates[name].constraints)

(* C5: pruning is monotone.  Whenever check_gender_agreement is false on a *)
(* buffer it is false on the buffer after one more push, and so after any  *)
(* number of pushes; likewise check_number_agreement; hence a buffer that  *)
(* _should_prune cuts under a template's constraints is cut again at       *)
(* every buffer grown from it: the cut branch holds no candidate passing   *)
(* the same check.                                                         *)
C5_PruningMonotone == [][StaysFailed]_vars

\* a verb in the singular, then a plural subject of it (number fails), then
\* a noun of another gender than the subject (gender fails too): the buffer
\* was grown twice after its first failure
C5_Witness ==
    /\ Len(tokens) = 3
    /\ tokens[1] = PruneTok("VERB", <<"root", NoHead>>, None, "sing")
    /\ tokens[2] = PruneTok("NOUN", <<"nsubj", 0>>, "fem", "plur")
    /\ tokens[3] = PruneTok("NOUN", <<"nsubj", 0>>, "masc", "sing")
    /\ ~check_number_agreement(cfg, SubSeq(tokens, 1, 2))
    /\ ~check_number_agreement(cfg, tokens)
    /\ ~check_gender_agreement(cfg, tokens)
    /\ _should_prune(SubSeq(tokens, 1, 2), templates["SN"].constraints)
    /\ _should_prune(tokens, templates["SN"].constraints)

-----------------------------------------------------------------------------
(* Specification SpecDecoder: beam_search_with_constraints on every        *)
(* vocabulary of at most MaxVocab distinct entries of DecoderPool with     *)
(* scores in 0..MaxScore, every beam_width in 1..MaxBeamWidth, every       *)
(* max_length in 0..MaxLength, both analyzers and three constraint lists.  *)

MaxVocab == 2
MaxScore == 1
MaxBeamWidth == 2
MaxLength == 3

\* "La chat" and "Le chatte" are entries that fail gender agreement on
\* their own; "La" after "La" is read as a noun of the other gender
DecoderPool == {"La", "chatte", "La chat", "Le chatte"}

Vocabularies ==
    {v \in UNION {[1..n -> DecoderPool] : n \in 0..MaxVocab} :
        \A i \in DOMAIN v, j \in DOMAIN v : i # j => v[i] # v[j]}

\* the constraints argument: absent, one known name, a known and an
\* unknown, and a request for the slot template next to gender agreement
DecoderConstraintArgs ==
    {<<>>, <<"gender_agreement">>, <<"subject_verb_agreement", "object_agreement">>,
     <<"gender_agreement", "syntax_template">>}

DecoderInit ==
    /\ RuleIdle /\ GeneratorIdle /\ DispatchIdle
    /\ nlp \in Tools
    /\ constraints \in {ConstraintsOrDefault(c) : c \in DecoderConstraintArgs}
    /\ vocabulary \in Vocabularies
    /\ initial_scores \in [1..Len(vocabulary) -> 0..MaxScore]
    /\ beam_width \in 1..MaxBeamWidth
    /\ max_length \in 0..MaxLength
    /\ beams = <<[sequence |-> <<>>, score |-> 0]>>
    /\ candidates = <<>>
    /\ step = 0
    /\ dpc = "for"

\* one pass of the two nested loops: candidates holds the survivors
DecoderExtend ==
    /\ dpc = "for"
    /\ step < max_length
    /\ candidates' = Extensions(nlp, constraints, vocabulary, initial_scores, beams, 1, 1)
    /\ dpc' = "sort"
    /\ UNCHANGED <<beams, step, vocabulary, initial_scores, beam_width, max_length,
                   sharedVars, ruleVars, genVars, conVars>>

\* DecoderSelect without the "if not beams: break"
DecoderSelect_NoBreak ==
    /\ dpc = "sort"
    /\ candidates' = SortedCandidates(candidates)
    /\ beams' = Take(candidates', beam_width)
    /\ step' = step + 1
    /\ dpc' = "for"
    /\ UNCHANGED <<vocabulary, initial_scores, beam_width, max_length,
                   sharedVars, ruleVars, genVars, conVars>>

\* sort, keep the first beam_width, leave the loop when nothing is left
DecoderSelect ==
    /\ dpc = "sort"
    /\ candidates' = SortedCandidates(candidates)
    /\ beams' = Take(candidates', beam_width)
    /\ step' = step + 1
    /\ dpc' = IF beams' = <<>> THEN "break" ELSE "for"
    /\ UNCHANGED <<vocabulary, initial_scores, beam_width, max_length,
                   sharedVars, ruleVars, genVars, conVars>>

\* return beams, after the break or when range(max_length) is exhausted
DecoderReturn ==
    /\ \/ dpc = "break"
       \/ dpc = "for" /\ step >= max_length
    /\ dpc' = "done"
    /\ UNCHANGED <<beams, candidates, step, vocabulary, initial_scores, beam_width,
                   max_length, sharedVars, ruleVars, genVars, conVars>>

DecoderNext == DecoderExtend \/ DecoderSelect \/ DecoderReturn

SpecDecoder == DecoderInit /\ [][DecoderNext]_vars

\* every word of the vocabulary fails the constraints as a one-word sequence
EverySingleWordFails ==
    \A idx \in 1..Len(vocabulary) :
        ~Decoder_check_constraints(nlp, <<vocabulary[idx]>>, constraints)

(* C6: beam_search_with_constraints leaves its loop at the first step that *)
(* has no surviving extension and returns the empty beam (nothing kept at  *)
(* an earlier step is returned); while every step has a survivor the loop  *)
(* goes on, for max_length steps in all, and every returned sequence has   *)
(* max_length words.  With two vocabulary entries, beam_width 2,           *)
(* max_length 3 and every one-word sequence failing, the empty beam is     *)
(* returned after step 1.                                                  *)
C6_BeamTermination ==
    /\ step <= max_length
    /\ \A b \in 1..Len(beams) : Len(beams[b].sequence) = step
    \* the loop goes on only after a step with survivors
    /\ (dpc = "for" /\ step > 0) => (candidates # <<>> /\ beams # <<>>)
    \* it is left early exactly on a step without survivor
    /\ dpc = "break" => (candidates = <<>> /\ beams = <<>>)
    /\ dpc = "done" =>
          \/ /\ beams = <<>>
             /\ candidates = <<>>
             /\ step >= 1
          \/ /\ beams # <<>>
             /\ step = max_length
             /\ \A b \in 1..Len(beams) : Len(beams[b].sequence) = max_length
    /\ (/\ dpc = "done"
        /\ Len(vocabulary) = 2 /\ beam_width = 2 /\ max_length = 3
        /\ EverySingleWordFails) => (beams = <<>> /\ step = 1)

\* the case of the specification: two entries that each fail on their own
C6_Witness ==
    /\ dpc = "done"
    /\ Len(vocabulary) = 2 /\ beam_width = 2 /\ max_length = 3
    /\ EverySingleWordFails
    /\ beams = <<>>
    /\ step = 1

\* position of an entry among the entries of a list once sorted by score
\* descending, entries of equal score in the order of the list
Rank(list, i) ==
    1 + Cardinality({j \in DOMAIN list : list[j].score > list[i].score})
      + Cardinality({j \in DOMAIN list : j < i /\ list[j].score = list[i].score})

TopByRank(list, n) ==
    [r \in 1..(IF n < Len(list) THEN n ELSE Len(list)) |->
        list[CHOOSE i \in DOMAIN list : Rank(list, i) = r]]

\* (beam entry, vocabulary index) of an extension of the current beam
OriginOf(entry) ==
    CHOOSE o \in (1..Len(beams)) \X (1..Len(vocabulary)) :
        entry.sequence = Append(beams[o[1]].sequence, vocabulary[o[2]])

\* the sum of the vocabulary scores of the words of a sequence
RECURSIVE ScoreSum(_)
ScoreSum(sequence) ==
    IF sequence = <<>> THEN 0
    ELSE initial_scores[CHOOSE idx \in 1..Len(vocabulary) :
                            vocabulary[idx] = Head(sequence)]
         + ScoreSum(Tail(sequence))

\* what the sort-and-truncate of a step does to the survivors it is given
SelectsTop ==
    dpc = "sort" =>
        /\ \A i \in DOMAIN candidates, j \in DOMAIN candidates :
              i < j =>
                LET a == OriginOf(candidates[i])
                    b == OriginOf(candidates[j])
                IN  a[1] < b[1] \/ (a[1] = b[1] /\ a[2] < b[2])
        /\ beams' = TopByRank(candidates, beam_width)
        /\ Len(beams') <= beam_width
        /\ \A i \in DOMAIN beams', j \in DOMAIN beams' :
              i < j => beams'[i].score >= beams'[j].score
        /\ \A i \in DOMAIN beams' : beams'[i].score = ScoreSum(beams'[i].sequence)
        /\ \A i \in DOMAIN candidates :
              (\A j \in DOMAIN beams' : beams'[j] # candidates[i]) =>
                  \A j \in DOMAIN beams' : candidates[i].score <= beams'[j].score

(* C7: each step (beam_width >= 1) turns the surviving extensions, listed  *)
(* beam entry by beam entry and within one by vocabulary index, into the   *)
(* beam made of the first beam_width of them by cumulative score           *)
(* descending, equal scores in the order of the listing: at most           *)
(* beam_width entries, sorted by score, each score the sum of the          *)
(* vocabulary scores of its words, no dropped survivor scoring higher      *)
(* than a retained one.                                                    *)
C7_BeamSelection == [][SelectsTop]_vars

\* a step that dropped a survivor tied with the last one it kept, after a
\* sort that had to move a later, better survivor to the front
C7_Witness ==
    /\ dpc = "for" /\ step = 2
    /\ initial_scores = <<0, 1>>
    /\ Len(beams) = beam_width
    /\ Len(candidates) > beam_width
    /\ candidates[beam_width].score = candidates[beam_width + 1].score
    /\ beams[1].score > beams[beam_width].score

-----------------------------------------------------------------------------
(* MorphosyntacticTemplate.generate_with_constraints: the backtracking     *)
(* enumeration of _generate_candidate_sequences, one activation of         *)
(* backtrack per stack frame, then the chunked re-analysis.                *)

\* max_repetitions: int = 3
max_repetitions == 3

\* token_spec.rstrip('?*')
RStrip(token_spec) ==
    CASE token_spec = "DET?" -> "DET"
      [] token_spec = "ADJ*" -> "ADJ"
      [] OTHER               -> token_spec

\* token_spec.endswith(suffix)
EndsWith(token_spec, suffix) ==
    CASE suffix = "?" -> token_spec \in {"DET?"}
      [] suffix = "*" -> token_spec \in {"ADJ*"}
      [] OTHER        -> FALSE

\* _precompute_lexical_analyses: lexical_analyses[pos][word], the analysis
\* of the word taken alone
lexical_analyses(tool, word) == analyze(tool, Split(word))

\* the "while idx >= 0 and ..." loop counting consecutive_identical
\* (idx is 0-based)
RECURSIVE ConsecutiveIdentical(_, _, _, _)
ConsecutiveIdentical(words, pos_sequence, word, idx) ==
    IF idx >= 0 /\ pos_sequence[idx + 1] = "ADJ" /\ words[idx + 1] = word
    THEN 1 + ConsecutiveIdentical(words, pos_sequence, word, idx - 1)
    ELSE 0

\* a fresh activation backtrack(current_words, current_tokens,
\* current_pos_sequence, pos_index, repeat_count, adj_counts), standing
\* before the first word of its slot; entered keeps the contents the three
\* list arguments have at the call
Frame(pos_index, repeat_count, adj_counts) ==
    [pos_index |-> pos_index, repeat_count |-> repeat_count,
     adj_counts |-> adj_counts, updated_adj_counts |-> adj_counts,
     w |-> 1, pc |-> "for",
     entered |-> [words |-> current_words, tokens |-> current_tokens,
                  pos_sequence |-> current_pos_sequence]]

\* the innermost activation and what it reads
Top == stack[Len(stack)]
pattern == templates[template_name].pattern
token_spec == pattern[Top.pos_index + 1]
pos == RStrip(token_spec)
is_optional == EndsWith(token_spec, "?")
is_multiple == EndsWith(token_spec, "*")
available_words == lexical_items[pos]
word == available_words[Top.w]
word_tokens == lexical_analyses(nlp, word)

InSlot == gpc = "backtrack" /\ stack # <<>> /\ Top.pos_index < Len(pattern)
AtWord == InSlot /\ Top.pc = "for" /\ Top.w <= Len(available_words)

\* WordSkipped refusing an adjective already chosen once
WordSkipped_CapOne ==
    \/ word_tokens = <<>>
    \/ /\ pos = "ADJ"
       /\ \/ DictGet(Top.adj_counts, word) >= 1
          \/ ConsecutiveIdentical(current_words, current_pos_sequence, word,
                                  Len(current_words) - 1) >= 2

\* the three "continue" of the word loop
WordSkipped ==
    \/ word_tokens = <<>>
    \/ /\ pos = "ADJ"
       /\ \/ DictGet(Top.adj_counts, word) >= 2
          \/ ConsecutiveIdentical(current_words, current_pos_sequence, word,
                                  Len(current_words) - 1) >= 2

SetTop(frame) == [stack EXCEPT ![Len(stack)] = frame]
PopFrame == SubSeq(stack, 1, Len(stack) - 1)

\* candidate_sequences[start:start + chunk_size] without the last entry
ChunkOf_DropsLast(list, from, size) ==
    SubSeq(list, from + 1,
           IF from + size - 1 < Len(list) THEN from + size - 1 ELSE Len(list))

\* candidate_sequences[start:start + chunk_size]
ChunkOf(list, from, size) ==
    SubSeq(list, from + 1, IF from + size < Len(list) THEN from + size ELSE Len(list))

\* ' '.join(token['text'] for token in tokens), as the sequence of its forms
PhraseOf(toks) == [k \in 1..Len(toks) |-> toks[k].text]

\* the "for sequence, tokens in zip(chunk, analyses)" loop from index k:
\* the phrases it appends
RECURSIVE ChunkPhrases(_, _, _, _)
ChunkPhrases(tool, constraint_names, chunk, k) ==
    IF k > Len(chunk) THEN <<>>
    ELSE LET sequence == chunk[k]
             toks == analyze(tool, Join(sequence))
             rest == ChunkPhrases(tool, constraint_names, chunk, k + 1)
         IN  IF toks = <<>> \/ sequence = <<>> THEN rest
             ELSE IF Template_check_constraints(toks, constraint_names)
                  THEN <<PhraseOf(toks)>> \o rest
                  ELSE rest

-----------------------------------------------------------------------------
(* Specification SpecGenerator: generate_with_constraints on every         *)
(* template, under both analyzers, for each of the lexicons below and      *)
(* every chunk_size in 1..MaxChunk.                                        *)

MaxChunk == 3

Items(det, adj, noun, verb) == [DET |-> det, ADJ |-> adj, NOUN |-> noun, VERB |-> verb]

LexicalItems ==
    { Items(<<>>, <<"petit">>, <<"chat">>, <<>>),
      Items(<<"La">>, <<"petit", "petite">>, <<"chat", "chatte">>, <<>>),
      Items(<<"Le", "">>, <<"petite">>, <<"chatte">>, <<"mange">>),
      Items(<<"Le", "La">>, <<>>, <<"chat", "chats">>, <<"mange", "mangent">>),
      Items(<<>>, <<"petit", "grand">>, <<"chat">>, <<>>) }

\* the call generate_with_constraints(template_name, lexical_items,
\* chunk_size), standing at backtrack([], [], [], 0, 0, {})
GeneratorInit ==
    /\ RuleIdle /\ DecoderIdle /\ DispatchIdle
    /\ nlp \in Tools
    /\ template_name \in TemplateNames
    /\ constraints = templates[template_name].constraints
    /\ lexical_items \in LexicalItems
    /\ chunk_size \in 1..MaxChunk
    /\ current_words = <<>>
    /\ current_tokens = <<>>
    /\ current_pos_sequence = <<>>
    /\ stack = <<Frame(0, 0, EmptyDict)>>
    /\ candidate_sequences = <<>>
    /\ start = 0
    /\ generated = <<>>
    /\ gpc = "backtrack"

\* pos_index == len(pattern): record the candidate and return
BacktrackEmit ==
    /\ gpc = "backtrack" /\ stack # <<>>
    /\ Top.pos_index = Len(pattern)
    /\ candidate_sequences' = IF current_words # <<>>
                              THEN Append(candidate_sequences, current_words)
                              ELSE candidate_sequences
    /\ stack' = PopFrame
    /\ UNCHANGED <<template_name, lexical_items, chunk_size, current_words,
                   current_tokens, current_pos_sequence, start, generated, gpc,
                   sharedVars, ruleVars, decVars, conVars>>

\* a word without analysis, an adjective already chosen twice, or a third
\* identical adjective in a row: continue
SkipWord ==
    /\ AtWord
    /\ WordSkipped
    /\ stack' = SetTop([Top EXCEPT !.w = @ + 1])
    /\ UNCHANGED <<template_name, lexical_items, chunk_size, current_words,
                   current_tokens, current_pos_sequence, candidate_sequences,
                   start, generated, gpc, sharedVars, ruleVars, decVars, conVars>>

\* append the word, count it, and test _should_prune
PushWord ==
    /\ AtWord
    /\ ~WordSkipped
    /\ current_words' = Append(current_words, word)
    /\ current_tokens' = current_tokens \o word_tokens
    /\ current_pos_sequence' = Append(current_pos_sequence, pos)
    /\ LET current_count == DictGet(Top.adj_counts, word)
           updated_adj_counts == IF pos = "ADJ"
                                 THEN DictSet(Top.adj_counts, word, current_count + 1)
                                 ELSE Top.adj_counts
           next == IF _should_prune(current_tokens', constraints) THEN "pop"
                   ELSE IF is_multiple /\ Top.repeat_count + 1 <= max_repetitions
                        THEN "stay"
                        ELSE "advance"
       IN  stack' = SetTop([Top EXCEPT !.updated_adj_counts = updated_adj_counts,
                                       !.pc = next])
    /\ UNCHANGED <<template_name, lexical_items, chunk_size, candidate_sequences,
                   start, generated, gpc, sharedVars, ruleVars, decVars, conVars>>

\* backtrack(..., pos_index, repeat_count + 1, updated_adj_counts)
CallStay ==
    /\ InSlot /\ Top.pc = "stay"
    /\ stack' = Append(SetTop([Top EXCEPT !.pc = "advance"]),
                       Frame(Top.pos_index, Top.repeat_count + 1,
                             Top.updated_adj_counts))
    /\ UNCHANGED <<template_name, lexical_items, chunk_size, current_words,
                   current_tokens, current_pos_sequence, candidate_sequences,
                   start, generated, gpc, sharedVars, ruleVars, decVars, conVars>>

\* backtrack(..., pos_index + 1, 0, updated_adj_counts)
CallAdvance ==
    /\ InSlot /\ Top.pc = "advance"
    /\ stack' = Append(SetTop([Top EXCEPT !.pc = "pop"]),
                       Frame(Top.pos_index + 1, 0, Top.updated_adj_counts))
    /\ UNCHANGED <<template_name, lexical_items, chunk_size, current_words,
                   current_tokens, current_pos_sequence, candidate_sequences,
                   start, generated, gpc, sharedVars, ruleVars, decVars, conVars>>

\* PopWord leaving the word's tokens in current_tokens
PopWord_KeepsTokens ==
    /\ InSlot /\ Top.pc = "pop"
    /\ current_tokens' = current_tokens
    /\ current_words' = SubSeq(current_words, 1, Len(current_words) - 1)
    /\ current_pos_sequence' = SubSeq(current_pos_sequence, 1, Len(current_pos_sequence) - 1)
    /\ stack' = SetTop([Top EXCEPT !.w = @ + 1, !.pc = "for"])
    /\ UNCHANGED <<template_name, lexical_items, chunk_size, candidate_sequences,
                   start, generated, gpc, sharedVars, ruleVars, decVars, conVars>>

\* del current_tokens[-len(word_tokens):]; current_words.pop();
\* current_pos_sequence.pop(); then the next word
PopWord ==
    /\ InSlot /\ Top.pc = "pop"
    /\ current_tokens' = SubSeq(current_tokens, 1, Len(current_tokens) - Len(word_tokens))
    /\ current_words' = SubSeq(current_words, 1, Len(current_words) - 1)
    /\ current_pos_sequence' = SubSeq(current_pos_sequence, 1, Len(current_pos_sequence) - 1)
    /\ stack' = SetTop([Top EXCEPT !.w = @ + 1, !.pc = "for"])
    /\ UNCHANGED <<template_name, lexical_items, chunk_size, candidate_sequences,
                   start, generated, gpc, sharedVars, ruleVars, decVars, conVars>>

\* after the word loop of an optional or repeatable slot:
\* backtrack(..., pos_index + 1, 0), adj_counts left to its default
ZeroInstance ==
    /\ InSlot /\ Top.pc = "for" /\ Top.w > Len(available_words)
    /\ is_optional \/ is_multiple
    /\ stack' = Append(SetTop([Top EXCEPT !.pc = "return"]),
                       Frame(Top.pos_index + 1, 0, EmptyDict))
    /\ UNCHANGED <<template_name, lexical_items, chunk_size, current_words,
                   current_tokens, current_pos_sequence, candidate_sequences,
                   start, generated, gpc, sharedVars, ruleVars, decVars, conVars>>

\* the end of an activation that is not at the end of the pattern
BacktrackReturn ==
    /\ InSlot
    /\ \/ Top.pc = "return"
       \/ /\ Top.pc = "for" /\ Top.w > Len(available_words)
          /\ ~(is_optional \/ is_multiple)
    /\ stack' = PopFrame
    /\ UNCHANGED <<template_name, lexical_items, chunk_size, current_words,
                   current_tokens, current_pos_sequence, candidate_sequences,
                   start, generated, gpc, sharedVars, ruleVars, decVars, conVars>>

\* _generate_candidate_sequences has returned: return at once when there
\* is no candidate, else enter the chunk loop
CandidatesReturned ==
    /\ gpc = "backtrack" /\ stack = <<>>
    /\ gpc' = IF candidate_sequences = <<>> THEN "done" ELSE "chunks"
    /\ UNCHANGED <<template_name, lexical_items, chunk_size, stack, current_words,
                   current_tokens, current_pos_sequence, candidate_sequences,
                   start, generated, sharedVars, ruleVars, decVars, conVars>>

\* one iteration of "for start in range(0, total_candidates, chunk_size)"
AnalyzeChunk ==
    /\ gpc = "chunks" /\ start < Len(candidate_sequences)
    /\ generated' = generated \o
           ChunkPhrases(nlp, constraints,
                        ChunkOf(candidate_sequences, start, chunk_size), 1)
    /\ start' = start + chunk_size
    /\ UNCHANGED <<template_name, lexical_items, chunk_size, stack, current_words,
                   current_tokens, current_pos_sequence, candidate_sequences,
                   gpc, sharedVars, ruleVars, decVars, conVars>>

\* return generated
GenerateReturn ==
    /\ gpc = "chunks" /\ start >= Len(candidate_sequences)
    /\ gpc' = "done"
    /\ UNCHANGED <<template_name, lexical_items, chunk_size, stack, current_words,
                   current_tokens, current_pos_sequence, candidate_sequences,
                   start, generated, sharedVars, ruleVars, decVars, conVars>>

GeneratorNext ==
    \/ BacktrackEmit \/ SkipWord \/ PushWord \/ CallStay \/ CallAdvance
    \/ PopWord \/ ZeroInstance \/ BacktrackReturn
    \/ CandidatesReturned \/ AnalyzeChunk \/ GenerateReturn

SpecGenerator == GeneratorInit /\ [][GeneratorNext]_vars

\* how often a form occurs in a candidate
Occurrences(candidate, form) ==
    Cardinality({k \in 1..Len(candidate) : candidate[k] = form})

\* C8: in every candidate emitted by _generate_candidate_sequences no
\* adjective surface form is chosen more than twice, whatever the slots
\* (before or after the noun) it was chosen in.  The lexicons keep the
\* adjective forms apart from the other forms, so counting a form's
\* occurrences counts its choices in adjective slots.
C8_AdjectiveCap ==
    \A i \in 1..Len(candidate_sequences) :
        \A k \in 1..Len(lexical_items.ADJ) :
            Occurrences(candidate_sequences[i], lexical_items.ADJ[k]) <= 2

\* the constraint names of a list
NamesIn(constraint_names) == {constraint_names[k] : k \in 1..Len(constraint_names)}

\* a re-analysis passes every recognized constraint of the template and
\* check_anti_repetition
Kept(toks) ==
    /\ "gender_agreement" \in NamesIn(constraints)
           => check_gender_agreement(DefaultChecker, toks)
    /\ "number_agreement" \in NamesIn(constraints)
           => check_number_agreement(DefaultChecker, toks)
    /\ "subject_verb_agreement" \in NamesIn(constraints)
           => check_subject_verb_agreement(DefaultChecker, toks)
    /\ check_anti_repetition(DefaultChecker, toks)

\* the phrases of the first n candidates that are kept, in discovery order
RECURSIVE KeptPhrases(_)
KeptPhrases(n) ==
    IF n = 0 THEN <<>>
    ELSE LET toks == analyze(nlp, Join(candidate_sequences[n]))
         IN  IF toks # <<>> /\ Kept(toks)
             THEN Append(KeptPhrases(n - 1), PhraseOf(toks))
             ELSE KeptPhrases(n - 1)

\* C9: generate_with_constraints returns, in discovery order, one phrase for
\* each emitted candidate whose re-analysis is non-empty and passes every
\* recognized constraint of the template and check_anti_repetition, and
\* nothing else; the right-hand side does not mention chunk_size, so the
\* returned list is the same for every chunk_size >= 1.
C9_GeneratedIsFilter ==
    gpc = "done" => generated = KeptPhrases(Len(candidate_sequences))

\* a finished call with chunk_size 2 over an odd number (>= 3) of
\* candidates, some kept and some dropped
C9_Witness ==
    /\ gpc = "done"
    /\ chunk_size = 2
    /\ Len(candidate_sequences) >= 3
    /\ Len(candidate_sequences) % 2 = 1
    /\ generated # <<>>
    /\ Len(generated) < Len(candidate_sequences)

-----------------------------------------------------------------------------
(* Specification SpecDispatch: the three constraint dispatchers called on  *)
(* every sequence of at most MaxDispatchWords words under every list of    *)
(* at most MaxConstraints constraint names, known or not.                  *)

MaxDispatchWords == 2
MaxConstraints == 3

DispatchWords == {"La", "petit", "chat", "mangent"}

RecognizedNames == {"gender_agreement", "number_agreement", "subject_verb_agreement"}
ConstraintNames == RecognizedNames \cup {"object_agreement"}

\* list[:i] + [x] + list[i:]
InsertAt(list, i, x) == SubSeq(list, 1, i) \o <<x>> \o SubSeq(list, i + 1, Len(list))

\* list[:i - 1] + list[i:] (i is 1-based)
RemoveAt(list, i) == SubSeq(list, 1, i - 1) \o SubSeq(list, i + 1, Len(list))

DispatchInit ==
    /\ DecoderIdle /\ GeneratorIdle
    /\ nlp \in Tools
    /\ constraints = <<>>
    /\ checked_sequence = <<>>
    /\ tokens = <<>>
    /\ cfg = DefaultChecker
    /\ op = ""
    /\ verdict = None

\* one more word in the sequence; tokens is its analysis
DispatchPushWord ==
    /\ Len(checked_sequence) < MaxDispatchWords
    /\ \E form \in DispatchWords :
          checked_sequence' = Append(checked_sequence, form)
    /\ tokens' = analyze(nlp, Join(checked_sequence'))
    /\ op' = ""
    /\ verdict' = None
    /\ UNCHANGED <<cfg, sharedVars, decVars, genVars>>

\* one more name in the constraint list, at any place
DispatchAddConstraint ==
    /\ Len(constraints) < MaxConstraints
    /\ \E name \in ConstraintNames, i \in 0..Len(constraints) :
          constraints' = InsertAt(constraints, i, name)
    /\ op' = ""
    /\ verdict' = None
    /\ UNCHANGED <<tokens, cfg, nlp, decVars, genVars, conVars>>

\* MorphosyntacticTemplate._check_constraints(tokens, constraints)
CallTemplateCheck ==
    /\ op = ""
    /\ op' = "template._check_constraints"
    /\ verdict' = Template_check_constraints(tokens, constraints)
    /\ UNCHANGED <<tokens, cfg, sharedVars, decVars, genVars, conVars>>

\* MorphosyntacticTemplate._should_prune(tokens, constraints)
CallShouldPrune ==
    /\ op = ""
    /\ op' = "template._should_prune"
    /\ verdict' = _should_prune(tokens, constraints)
    /\ UNCHANGED <<tokens, cfg, sharedVars, decVars, genVars, conVars>>

\* ConstrainedDecoder._check_constraints(sequence, constraints)
CallDecoderCheck ==
    /\ op = ""
    /\ op' = "decoder._check_constraints"
    /\ verdict' = Decoder_check_constraints(nlp, checked_sequence, constraints)
    /\ UNCHANGED <<tokens, cfg, sharedVars, decVars, genVars, conVars>>

DispatchNext ==
    \/ DispatchPushWord \/ DispatchAddConstraint
    \/ CallTemplateCheck \/ CallShouldPrune \/ CallDecoderCheck

SpecDispatch == DispatchInit /\ [][DispatchNext]_vars

\* what the dispatcher named by op returns under the given constraint list
ResultUnder(constraint_names) ==
    CASE op = "template._check_constraints" ->
             Template_check_constraints(tokens, constraint_names)
      [] op = "template._should_prune" ->
             _should_prune(tokens, constraint_names)
      [] op = "decoder._check_constraints" ->
             Decoder_check_constraints(nlp, checked_sequence, constraint_names)

\* C10: an unrecognized constraint name is vacuously satisfied: whatever the
\* sequence and the constraint list, each of the generator's
\* _check_constraints and _should_prune and the decoder's _check_constraints
\* returns a boolean (no error), and it is the boolean the same call returns
\* on the list without any one of its unrecognized names.
C10_UnknownIsVacuous ==
    op # "" =>
        /\ verdict \in BOOLEAN
        /\ \A i \in 1..Len(constraints) :
              constraints[i] \notin RecognizedNames
                  => verdict = ResultUnder(RemoveAt(constraints, i))

\* template SVO's list, with 'object_agreement', rejects "chat mangent" for
\* its subject-verb clash
C10_Witness ==
    /\ op = "template._check_constraints"
    /\ constraints = templates.SVO.constraints
    /\ checked_sequence = <<"chat", "mangent">>
    /\ verdict = FALSE

\* the adjective forms chosen in a row in a candidate, ending at place k
RECURSIVE AdjRun(_, _)
AdjRun(candidate, k) ==
    IF k >= 1 /\ \E a \in 1..Len(lexical_items.ADJ) : lexical_items.ADJ[a] = candidate[k]
    THEN 1 + AdjRun(candidate, k - 1)
    ELSE 0

\* C11: in every candidate emitted by _generate_candidate_sequences each
\* zero-or-more slot contributes at most max_repetitions words.  The only
\* '*' slots are the two ADJ* of SN, kept apart by the noun, so the words
\* of one slot are a maximal run of adjective forms.
C11_RepetitionBound ==
    \A i \in 1..Len(candidate_sequences) :
        \A k \in 1..Len(candidate_sequences[i]) :
            AdjRun(candidate_sequences[i], k) <= max_repetitions

\* the three buffers, as a frame's entered field holds them
Buffers ==
    [words |-> current_words, tokens |-> current_tokens,
     pos_sequence |-> current_pos_sequence]

\* the buffers of an activation that has pushed the given word
WithWord(buffers, form, form_tokens, tag) ==
    [words |-> Append(buffers.words, form),
     tokens |-> buffers.tokens \o form_tokens,
     pos_sequence |-> Append(buffers.pos_sequence, tag)]

\* between two words, and at its return, the running activation sees the
\* buffers as it found them; while a word is pushed, as it found them plus
\* that word; the words and pos buffers have one length; once the outermost
\* call has returned all three are empty
BuffersRestored ==
    /\ Len(current_words) = Len(current_pos_sequence)
    /\ stack = <<>> =>
          current_words = <<>> /\ current_tokens = <<>> /\ current_pos_sequence = <<>>
    /\ stack # <<>> =>
          IF Top.pc \in {"stay", "advance", "pop"}
          THEN Buffers = WithWord(Top.entered, word, word_tokens, pos)
          ELSE Buffers = Top.entered

\* a return leaves the buffers as the returning call found them, and no
\* step changes a candidate already emitted
ReturnsRestoreAndCandidatesKept ==
    /\ Len(stack') < Len(stack) =>
          /\ current_words' = Top.entered.words
          /\ current_tokens' = Top.entered.tokens
          /\ current_pos_sequence' = Top.entered.pos_sequence
    /\ Len(candidate_sequences') >= Len(candidate_sequences)
    /\ \A i \in 1..Len(candidate_sequences) :
          candidate_sequences'[i] = candidate_sequences[i]

\* C12: reversible mutation: whenever a backtrack call returns, the words,
\* tokens and pos buffers hold what they held when it was entered, on
\* recursed and on pruned branches alike; the words and pos buffers always
\* have equal length; all three are empty when generation ends; a candidate
\* already emitted is never changed by later pushes and pops.
C12_ReversibleMutation == []BuffersRestored /\ [][ReturnsRestoreAndCandidatesKept]_vars

\* inside a recursive call a pruned word is about to be popped, after
\* earlier calls have returned and emitted candidates
C12_Witness ==
    /\ gpc = "backtrack" /\ Len(stack) >= 2
    /\ Top.pc = "pop"
    /\ _should_prune(current_tokens, constraints)
    /\ stack[Len(stack) - 1].pc = "pop"
    /\ candidate_sequences # <<>>

-----------------------------------------------------------------------------
(* Specification SpecNumber: check_number_agreement applied to every list  *)
(* of at most MaxNumToks tokens: nouns, verbs and pronouns, with or        *)
(* without a number, each a subject of the token at index 0 or 1 or no     *)
(* subject at all.                                                         *)

MaxNumToks == 3

NumLinks == {<<"dep", NoHead>>, <<"nsubj", 0>>, <<"nsubj:pass", 1>>}

NumTok(tag, link, number) ==
    Tok("w", None, tag, link[1], link[2], None, number, None)

NumToks ==
    {NumTok(p, l, n) : p \in {"NOUN", "VERB", "PRON"}, l \in NumLinks,
                       n \in {None, "sing", "plur"}}

NumInit ==
    /\ SharedIdle /\ DecoderIdle /\ GeneratorIdle /\ DispatchIdle
    /\ tokens = <<>>
    /\ cfg = DefaultChecker
    /\ op = ""
    /\ verdict = None

NumPush ==
    /\ op = ""
    /\ Len(tokens) < MaxNumToks
    /\ \E t \in NumToks : tokens' = Append(tokens, t)
    /\ UNCHANGED <<cfg, op, verdict, nonRuleVars>>

CallNumberAgreement ==
    /\ op = ""
    /\ op' = "check_number_agreement"
    /\ verdict' = check_number_agreement(cfg, tokens)
    /\ UNCHANGED <<tokens, cfg, nonRuleVars>>

NumNext == NumPush \/ CallNumberAgreement

SpecNumber == NumInit /\ [][NumNext]_vars

\* the token at place k carries a number
HasNumber(k) == Truthy(tokens[k].features.number)

\* two tokens that are not verbs, tagged DET, ADJ or NOUN, carry different
\* numbers
NominalNumberClash ==
    \E i, j \in 1..Len(tokens) :
        /\ tokens[i].pos \in {"DET", "ADJ", "NOUN"}
        /\ tokens[j].pos \in {"DET", "ADJ", "NOUN"}
        /\ HasNumber(i) /\ HasNumber(j)
        /\ tokens[i].features.number # tokens[j].features.number

\* the verb at place v carries a number and a subject mapped to it carries
\* another
VerbSubjectNumberClash(v) ==
    /\ tokens[v].pos = "VERB" /\ HasNumber(v)
    /\ \E s \in 1..Len(tokens) :
          /\ tokens[s].dep \in {"nsubj", "nsubj:pass"}
          /\ tokens[s].head = v - 1
          /\ HasNumber(s)
          /\ tokens[s].features.number # tokens[v].features.number

\* C13: check_number_agreement returns false if and only if two non-VERB
\* tokens tagged DET, ADJ or NOUN carry different numbers, or some VERB
\* carrying a number has a mapped subject (dep nsubj or nsubj:pass, head =
\* the verb's position) carrying a different one; a verb's number is never
\* compared with the canonical number of the other tokens, so a verb
\* without a mapped subject cannot make the check fail.
C13_NumberAgreement ==
    op = "check_number_agreement" =>
        (verdict = FALSE <=>
            \/ NominalNumberClash
            \/ \E v \in 1..Len(tokens) : VerbSubjectNumberClash(v))

\* a plural verb between two singular nouns, none of them its subject: the
\* check passes
C13_Witness ==
    /\ op = "check_number_agreement"
    /\ verdict = TRUE
    /\ Len(tokens) = 3
    /\ tokens[1] = NumTok("NOUN", <<"dep", NoHead>>, "sing")
    /\ tokens[2] = NumTok("VERB", <<"dep", NoHead>>, "plur")
    /\ tokens[3] = NumTok("NOUN", <<"dep", NoHead>>, "sing")

\* C14: when require_det (resp. require_noun) is not set, the DET (resp.
\* NOUN) slot is optional rather than forbidden: every non-empty tag
\* sequence [DET] ADJ{0..pre_adj_max} [NOUN] ADJ{0..post_adj_max}, with the
\* non-required tag present or absent, passes check_syntax_template.
C14_OptionalSlots ==
    (op = "check_syntax_template" /\ tokens # <<>>) =>
        \A d \in (IF cfg.require_det THEN {1} ELSE {0, 1}),
           m \in (IF cfg.require_noun THEN {1} ELSE {0, 1}),
           a \in 0..cfg.pre_adj_max, b \in 0..cfg.post_adj_max :
              PosOf(tokens) = SlotForm(d, a, m, b) => verdict = TRUE

\* the check a constraint name of the closed set stands for, on a fresh
\* analysis
RequestedCheck(name, toks) ==
    CASE name = "syntax_template"        -> check_syntax_template(DefaultChecker, toks)
      [] name = "anti_repetition"        -> check_anti_repetition(DefaultChecker, toks)
      [] name = "gender_agreement"       -> check_gender_agreement(DefaultChecker, toks)
      [] name = "number_agreement"       -> check_number_agreement(DefaultChecker, toks)
      [] name = "subject_verb_agreement" -> check_subject_verb_agreement(DefaultChecker, toks)
      [] OTHER                           -> TRUE

\* C15: every sequence held in the beam after a step of
\* beam_search_with_constraints passes, on a fresh analysis of the whole
\* sequence, every requested constraint of the closed set {syntax template,
\* anti-repetition, gender, number, subject-verb agreement}: an extension
\* failing a requested constraint of that set is never kept.
C15_BeamPassesRequested ==
    (dpc \in {"for", "break", "done"} /\ step >= 1) =>
        \A b \in 1..Len(beams) :
            \A k \in 1..Len(constraints) :
                RequestedCheck(constraints[k], analyze(nlp, Join(beams[b].sequence)))

\* C16: every phrase returned by generate_with_constraints for template SN
\* satisfies the slot template of the default rule engine: its analysed
\* tag sequence is accepted by check_syntax_template of a default
\* AgreementChecker (a determiner, at most pre_adj_max = 1 adjective, the
\* noun, at most post_adj_max = 2 adjectives).
C16_PhrasesFitTemplate ==
    template_name = "SN" =>
        \A i \in 1..Len(generated) :
            check_syntax_template(DefaultChecker, analyze(nlp, generated[i]))

\* the catalog's forms for a slot that have a pre-analysis
SlotWords(slot) ==
    LET forms == {lexical_items[RStrip(slot)][k] :
                     k \in 1..Len(lexical_items[RStrip(slot)])}
    IN  {form \in forms : lexical_analyses(nlp, form) # <<>>}

\* the candidate from place k on fills the pattern from slot p on: one word
\* for a plain slot, none or one for '?', any number for '*'
RECURSIVE Fills(_, _, _)
Fills(candidate, k, p) ==
    IF p > Len(pattern) THEN k > Len(candidate)
    ELSE LET slot == pattern[p]
             takes == k <= Len(candidate) /\ candidate[k] \in SlotWords(slot)
         IN  IF EndsWith(slot, "*")
             THEN Fills(candidate, k, p + 1) \/ (takes /\ Fills(candidate, k + 1, p))
             ELSE IF EndsWith(slot, "?")
             THEN Fills(candidate, k, p + 1) \/ (takes /\ Fills(candidate, k + 1, p + 1))
             ELSE takes /\ Fills(candidate, k + 1, p + 1)

\* the token buffer after the first n words of a candidate were pushed
RECURSIVE BufferOf(_, _)
BufferOf(candidate, n) ==
    IF n = 0 THEN <<>>
    ELSE BufferOf(candidate, n - 1) \o lexical_analyses(nlp, candidate[n])

\* the buffer passed the incremental constraints after every push
PassedEveryPush(candidate) ==
    \A n \in 1..Len(candidate) : ~_should_prune(BufferOf(candidate, n), constraints)

\* the sequences of at most n forms of a set
RECURSIVE SeqsUpTo(_, _)
SeqsUpTo(forms, n) ==
    IF n = 0 THEN {<<>>}
    ELSE LET shorter == SeqsUpTo(forms, n - 1)
         IN  shorter \cup {Append(s, form) : s \in shorter, form \in forms}

\* the fillings of the pattern from slot p on with at most max_repetitions
\* words in a '*' slot
RECURSIVE FillingsFrom(_)
FillingsFrom(p) ==
    IF p > Len(pattern) THEN {<<>>}
    ELSE LET slot == pattern[p]
             rest == FillingsFrom(p + 1)
             one == {<<form>> \o r : form \in SlotWords(slot), r \in rest}
         IN  IF EndsWith(slot, "*")
             THEN {s \o r : s \in SeqsUpTo(SlotWords(slot), max_repetitions), r \in rest}
             ELSE IF EndsWith(slot, "?") THEN rest \cup one
             ELSE one

\* the fillings the generator owes: not empty, each adjective form at most
\* twice, the incremental constraints passed after every push
OwedFillings ==
    {f \in FillingsFrom(1) :
        /\ f # <<>>
        /\ \A k \in 1..Len(lexical_items.ADJ) : Occurrences(f, lexical_items.ADJ[k]) <= 2
        /\ PassedEveryPush(f)}

\* C17: the generator emits what the template allows and misses nothing.
\* When _generate_candidate_sequences returns, every emitted candidate is
\* non-empty, fills the pattern's slots in order with catalog words of the
\* slot's tag (one for a plain slot, none or one for '?', any number for
\* '*') and passed each configured incremental constraint after every
\* push; and every such filling with at most max_repetitions words per '*'
\* slot, each adjective form at most twice and a pre-analysis for every
\* word has been emitted at least once.
C17_SoundAndComplete ==
    (gpc = "backtrack" /\ stack = <<>>) =>
        LET emitted == {candidate_sequences[i] : i \in 1..Len(candidate_sequences)}
        IN  /\ \A c \in emitted :
                  c # <<>> /\ Fills(c, 1, 1) /\ PassedEveryPush(c)
            /\ OwedFillings \subseteq emitted

\* _generate_candidate_sequences has returned for SN with a determiner, two
\* adjectives of different genders and two nouns: fillings with and without
\* the determiner were emitted, others were pruned
C17_Witness ==
    /\ gpc = "backtrack" /\ stack = <<>>
    /\ template_name = "SN"
    /\ lexical_items = Items(<<"La">>, <<"petit", "petite">>, <<"chat", "chatte">>, <<>>)
    /\ \E i \in 1..Len(candidate_sequences) :
          candidate_sequences[i] = <<"La", "petite", "chatte", "petite">>
    /\ \E i \in 1..Len(candidate_sequences) :
          candidate_sequences[i] = <<"petit", "chat">>
    /\ ~PassedEveryPush(<<"La", "chat">>)

=============================================================================
